---- MODULE Spec2Model ----
(***************************************************************************)
(* State-machine model of pkg/builder/file_pool_stats_build_executor.go:   *)
(* the filePoolStatsBuildExecutor decorator, the statsCollectingFilePool   *)
(* it creates per Execute call and the statsCollectingFileReadWriter       *)
(* handles that pool hands out.  An action is named after the function    *)
(* and the first source line it models (ReadAt_104 is line 104 of ReadAt). *)
(* Every statement inside a critical section is an action of its own; a    *)
(* statement that only touches locals of the goroutine is part of the      *)
(* action of the statement before it.                                      *)
(***************************************************************************)
EXTENDS Integers, Sequences, FiniteSets, TLC

\* ------------------------------------------------------------------------
\* Bounds of the model.
\* ------------------------------------------------------------------------
\* Number of goroutines of the inner executor that use the file pool.
NumThreads == 2
\* Number of Execute invocations the model has room for.
NumExec == 2
\* Number of files the inner pool hands out.
MaxFiles == 2
\* Number of ReadAt/WriteAt/Truncate calls made in one run.
MaxOps == 2
\* Largest len(p) of a ReadAt/WriteAt buffer.
MaxLen == 1
\* Largest offset passed to ReadAt/WriteAt.
MaxOff == 1
\* Largest length passed to Truncate.
MaxLength == 1
\* uint64 arithmetic is modelled modulo UintModulus (standing for 2^64).
UintModulus == 32

\* The nil value of f.pool (line 151) and of a returned handle (line 62).
NilPool == 0
NilFile == 0

Threads == 1..NumThreads
Invocations == 1..NumExec
\* The invocations of the specification Spec: one Execute call.
SingleInvocation == {1}

\* error values: "nil" is Go's nil error, the others come from the inner layer
InnerErrors == {"EIO"}
Errors == {"nil"} \cup InnerErrors

Max(a, b) == IF a < b THEN b ELSE a

\* uint64(x) for an int or int64 x, and uint64 addition and subtraction
uint64(x) == x % UintModulus
Add64(a, b) == (a + b) % UintModulus
Sub64(a, b) == (a - b) % UintModulus

\* resourceusage.FilePoolResourceUsage, zero value
ZeroStats ==
    [FilesCreated |-> 0, FilesCountPeak |-> 0, FilesSizeBytesPeak |-> 0,
     ReadsCount |-> 0, ReadsSizeBytes |-> 0,
     WritesCount |-> 0, WritesSizeBytes |-> 0, TruncatesCount |-> 0]

\* statsCollectingFilePool{base: filePool}: lock unlocked, counters zero
NewPool == [lock |-> FALSE, stats |-> ZeroStats, totalSize |-> 0, totalFiles |-> 0]

\* &statsCollectingFileReadWriter{FileReadWriter: f, pool: fp}; size is zero.
\* FileReadWriter is TRUE while the embedded interface is non-nil.  owner is
\* a history field: the pool that created the handle (pool is cleared by Close).
NewHandle(fp) == [FileReadWriter |-> TRUE, pool |-> fp, size |-> 0, owner |-> fp]

VARIABLES
    exec,    \* exec[e]: the locals of the Execute invocation e and its position
    pool,    \* pool[e]: the statsCollectingFilePool fp of invocation e
    files,   \* the statsCollectingFileReadWriter objects, in creation order
    thread,  \* thread[t]: the call goroutine t is in, its locals and position
    ncalls,  \* number of ReadAt/WriteAt/Truncate calls started (bounds the run)
    hist     \* hist[e]: history of what the inner layer did for invocation e

vars == <<exec, pool, files, thread, ncalls, hist>>

\* ------------------------------------------------------------------------
\* Values of the locals.
\* ------------------------------------------------------------------------
NoReturn == [f |-> NilFile, n |-> 0, err |-> "nil"]
NoPre == [stats |-> ZeroStats, totalSize |-> 0, totalFiles |-> 0, size |-> 0]

IdleThread ==
    [pc |-> "idle", op |-> "none", f |-> NilFile, fp |-> NilPool,
     p |-> 0, off |-> 0, length |-> 0, n |-> 0, err |-> "nil",
     newSize |-> 0, usl_fp |-> NilPool, ret |-> NoReturn, pre |-> NoPre]

\* An ExecuteResponse.  Result is "full" when response.Result and
\* response.Result.ExecutionMetadata are both set, "noMetadata" when
\* ExecutionMetadata is nil and "nil" when Result is nil.  errors is the
\* error-attachment channel of the response.
NoResponse ==
    [Status |-> "none", Result |-> "nil", AuxiliaryMetadata |-> <<>>, errors |-> <<>>]

\* an auxiliary-metadata entry the inner executor put there itself
OtherEntry == [type_url |-> "other", value |-> ZeroStats]

IdleExec ==
    [pc |-> "idle", response |-> NoResponse, stats |-> ZeroStats,
     ret |-> NoResponse]

NoHist ==
    [created |-> 0, reads |-> 0, readBytes |-> 0, writes |-> 0, writeBytes |-> 0,
     truncates |-> 0, maxTotalFiles |-> 0, maxTotalSize |-> 0,
     committed |-> ZeroStats, innerResponse |-> NoResponse, marshalErr |-> "nil"]

Init ==
    /\ exec = [e \in Invocations |-> IdleExec]
    /\ pool = [e \in Invocations |-> NewPool]
    /\ files = <<>>
    /\ thread = [t \in Threads |-> IdleThread]
    /\ ncalls = 0
    /\ hist = [e \in Invocations |-> NoHist]

\* ------------------------------------------------------------------------
\* Helpers shared by the actions.
\* ------------------------------------------------------------------------
\* A goroutine or an Execute invocation hit a nil dereference: the Go
\* runtime ends the process.
Panicked ==
    \/ \E t \in Threads : thread[t].pc = "panic"
    \/ \E e \in Invocations : exec[e].pc = "panic"

\* What an observer sees of pool e when a critical section ends: the
\* largest live aggregates so far and the statistics as last committed.
Observed(e) ==
    [hist[e] EXCEPT
        !.maxTotalFiles = Max(@, pool[e].totalFiles),
        !.maxTotalSize = Max(@, pool[e].totalSize),
        !.committed = pool[e].stats]

\* What a goroutine remembers of the state it found when it took the lock.
Pre(e, f) ==
    [stats |-> pool[e].stats, totalSize |-> pool[e].totalSize,
     totalFiles |-> pool[e].totalFiles,
     size |-> IF f = NilFile THEN 0 ELSE files[f].size]

\* fp.lock.Lock() by goroutine t, going on at pc next
Lock(t, next) ==
    LET fp == thread[t].fp IN
    IF fp = NilPool
    THEN /\ thread' = [thread EXCEPT ![t].pc = "panic"]
         /\ UNCHANGED <<exec, pool, files, ncalls, hist>>
    ELSE /\ ~pool[fp].lock
         /\ pool' = [pool EXCEPT ![fp].lock = TRUE]
         /\ thread' = [thread EXCEPT ![t].pc = next,
                                     ![t].pre = Pre(fp, thread[t].f)]
         /\ UNCHANGED <<exec, files, ncalls, hist>>

\* fp.lock.Unlock() by goroutine t
Unlock(t) ==
    LET fp == thread[t].fp IN
    /\ pool' = [pool EXCEPT ![fp].lock = FALSE]
    /\ hist' = [hist EXCEPT ![fp] = Observed(fp)]

\* goroutine t is back in its caller, which holds the returned values ret;
\* n and err stay, as the record of what the inner call returned
Returned(t, ret) ==
    [IdleThread EXCEPT !.pc = "returned", !.op = thread[t].op,
                       !.n = thread[t].n, !.err = thread[t].err, !.ret = ret]

\* ------------------------------------------------------------------------
\* statsCollectingFilePool.NewFile (lines 59-77)
\* ------------------------------------------------------------------------
\* line 59-60: goroutine t calls fp.NewFile() on the pool of invocation e
\* and enters fp.base.NewFile()
Call_NewFile(t, e) ==
    /\ thread[t].pc = "idle"
    /\ exec[e].pc # "idle"
    /\ Len(files) + Cardinality({u \in Threads : thread[u].op = "NewFile"
                                    /\ thread[u].pc # "returned"}) < MaxFiles
    /\ thread' = [thread EXCEPT ![t] =
                    [IdleThread EXCEPT !.pc = "NewFile_60", !.op = "NewFile", !.fp = e]]
    /\ UNCHANGED <<exec, pool, files, ncalls, hist>>

\* NewFile that does its bookkeeping before it looks at the error
NewFile_60_CountsFailures(t) ==
    /\ thread[t].pc = "NewFile_60"
    /\ \E err \in Errors :
        /\ thread' = [thread EXCEPT ![t].err = err,
                        ![t].pc = IF err # "nil" THEN "NewFile_62" ELSE "NewFile_65"]
        /\ hist' = [hist EXCEPT ![thread[t].fp].created =
                        IF err = "nil" THEN @ + 1 ELSE @]
        /\ pool' = [pool EXCEPT ![thread[t].fp].stats.FilesCreated = Add64(@, 1)]
    /\ UNCHANGED <<exec, files, ncalls>>

\* lines 60-61: f, err := fp.base.NewFile() returns; if err != nil
NewFile_60(t) ==
    /\ thread[t].pc = "NewFile_60"
    /\ \E err \in Errors :
        /\ thread' = [thread EXCEPT ![t].err = err,
                        ![t].pc = IF err # "nil" THEN "NewFile_62" ELSE "NewFile_65"]
        /\ hist' = [hist EXCEPT ![thread[t].fp].created =
                        IF err = "nil" THEN @ + 1 ELSE @]
    /\ UNCHANGED <<exec, pool, files, ncalls>>

\* NewFile that returns no error when the inner creation failed
NewFile_62_DropsError(t) ==
    /\ thread[t].pc = "NewFile_62"
    /\ thread' = [thread EXCEPT ![t] =
                    Returned(t, [f |-> NilFile, n |-> 0, err |-> "nil"])]
    /\ UNCHANGED <<exec, pool, files, ncalls, hist>>

\* line 62: return nil, err
NewFile_62(t) ==
    /\ thread[t].pc = "NewFile_62"
    /\ thread' = [thread EXCEPT ![t] =
                    Returned(t, [f |-> NilFile, n |-> 0, err |-> thread[t].err])]
    /\ UNCHANGED <<exec, pool, files, ncalls, hist>>

\* line 65: fp.lock.Lock()
NewFile_65(t) ==
    /\ thread[t].pc = "NewFile_65"
    /\ Lock(t, "NewFile_66")

\* line 66: fp.stats.FilesCreated++
NewFile_66(t) ==
    /\ thread[t].pc = "NewFile_66"
    /\ pool' = [pool EXCEPT ![thread[t].fp].stats.FilesCreated = Add64(@, 1)]
    /\ thread' = [thread EXCEPT ![t].pc = "NewFile_67"]
    /\ UNCHANGED <<exec, files, ncalls, hist>>

\* line 67: fp.totalFiles++
NewFile_67(t) ==
    /\ thread[t].pc = "NewFile_67"
    /\ pool' = [pool EXCEPT ![thread[t].fp].totalFiles = Add64(@, 1)]
    /\ thread' = [thread EXCEPT ![t].pc = "NewFile_68"]
    /\ UNCHANGED <<exec, files, ncalls, hist>>

\* NewFile that raises the peak to the count before this file was added
NewFile_68_StalePeak(t) ==
    /\ thread[t].pc = "NewFile_68"
    /\ LET fp == thread[t].fp IN
       pool' = [pool EXCEPT ![fp].stats.FilesCountPeak =
                    IF @ < pool[fp].totalFiles - 1 THEN pool[fp].totalFiles - 1 ELSE @]
    /\ thread' = [thread EXCEPT ![t].pc = "NewFile_71"]
    /\ UNCHANGED <<exec, files, ncalls, hist>>

\* lines 68-70: if fp.stats.FilesCountPeak < fp.totalFiles { ... = fp.totalFiles }
NewFile_68(t) ==
    /\ thread[t].pc = "NewFile_68"
    /\ LET fp == thread[t].fp IN
       pool' = [pool EXCEPT ![fp].stats.FilesCountPeak =
                    IF @ < pool[fp].totalFiles THEN pool[fp].totalFiles ELSE @]
    /\ thread' = [thread EXCEPT ![t].pc = "NewFile_71"]
    /\ UNCHANGED <<exec, files, ncalls, hist>>

\* lines 71-76: fp.lock.Unlock(); return &statsCollectingFileReadWriter{
\* FileReadWriter: f, pool: fp}, nil
NewFile_71(t) ==
    /\ thread[t].pc = "NewFile_71"
    /\ Unlock(t)
    /\ files' = Append(files, NewHandle(thread[t].fp))
    /\ thread' = [thread EXCEPT ![t] =
                    Returned(t, [f |-> Len(files) + 1, n |-> 0, err |-> "nil"])]
    /\ UNCHANGED <<exec, ncalls>>

\* ------------------------------------------------------------------------
\* statsCollectingFileReadWriter.ReadAt (lines 99-109)
\* ------------------------------------------------------------------------
\* ReadAt that takes the lock of the pool before it enters the inner read
Call_ReadAt_Locked(t, f, p, off) ==
    /\ thread[t].pc = "idle"
    /\ f \in DOMAIN files
    /\ ncalls < MaxOps
    /\ ncalls' = ncalls + 1
    /\ IF ~files[f].FileReadWriter
       THEN /\ thread' = [thread EXCEPT ![t] =
                            [IdleThread EXCEPT !.pc = "panic", !.op = "ReadAt"]]
            /\ UNCHANGED pool
       ELSE /\ ~pool[files[f].pool].lock
            /\ pool' = [pool EXCEPT ![files[f].pool].lock = TRUE]
            /\ thread' = [thread EXCEPT ![t] =
                            [IdleThread EXCEPT !.pc = "ReadAt_100", !.op = "ReadAt",
                                               !.f = f, !.p = p]]
    /\ UNCHANGED <<exec, files, hist>>

\* lines 99-100: goroutine t calls f.ReadAt(p, off), p standing for len(p),
\* and enters f.FileReadWriter.ReadAt(p, off); a nil FileReadWriter panics.
\* off goes to the inner handle alone, so the goroutine does not keep it.
Call_ReadAt(t, f, p, off) ==
    /\ thread[t].pc = "idle"
    /\ f \in DOMAIN files
    /\ ncalls < MaxOps
    /\ ncalls' = ncalls + 1
    /\ thread' = [thread EXCEPT ![t] =
                    IF ~files[f].FileReadWriter
                    THEN [IdleThread EXCEPT !.pc = "panic", !.op = "ReadAt"]
                    ELSE [IdleThread EXCEPT !.pc = "ReadAt_100", !.op = "ReadAt",
                                            !.f = f, !.p = p]]
    /\ UNCHANGED <<exec, pool, files, hist>>

\* lines 100-102: n, err := f.FileReadWriter.ReadAt(p, off) returns, with
\* any 0 <= n <= len(p) and any error; fp := f.pool
ReadAt_100(t) ==
    /\ thread[t].pc = "ReadAt_100"
    /\ LET f == thread[t].f IN
       \E n \in 0..thread[t].p, err \in Errors :
            /\ thread' = [thread EXCEPT ![t].n = n, ![t].err = err,
                                        ![t].p = 0,
                                        ![t].fp = files[f].pool,
                                        ![t].pc = "ReadAt_103"]
            /\ hist' = [hist EXCEPT ![files[f].owner].reads = @ + 1,
                                    ![files[f].owner].readBytes = @ + n]
    /\ UNCHANGED <<exec, pool, files, ncalls>>

\* line 103: fp.lock.Lock()
ReadAt_103(t) ==
    /\ thread[t].pc = "ReadAt_103"
    /\ Lock(t, "ReadAt_104")

\* line 104: fp.stats.ReadsCount++
ReadAt_104(t) ==
    /\ thread[t].pc = "ReadAt_104"
    /\ pool' = [pool EXCEPT ![thread[t].fp].stats.ReadsCount = Add64(@, 1)]
    /\ thread' = [thread EXCEPT ![t].pc = "ReadAt_105"]
    /\ UNCHANGED <<exec, files, ncalls, hist>>

\* ReadAt that counts the bytes of successful reads alone
ReadAt_105_OnlyOnSuccess(t) ==
    /\ thread[t].pc = "ReadAt_105"
    /\ pool' = [pool EXCEPT ![thread[t].fp].stats.ReadsSizeBytes =
                    IF thread[t].err = "nil" THEN Add64(@, uint64(thread[t].n)) ELSE @]
    /\ thread' = [thread EXCEPT ![t].pc = "ReadAt_106"]
    /\ UNCHANGED <<exec, files, ncalls, hist>>

\* line 105: fp.stats.ReadsSizeBytes += uint64(n)
ReadAt_105(t) ==
    /\ thread[t].pc = "ReadAt_105"
    /\ pool' = [pool EXCEPT ![thread[t].fp].stats.ReadsSizeBytes =
                    Add64(@, uint64(thread[t].n))]
    /\ thread' = [thread EXCEPT ![t].pc = "ReadAt_106"]
    /\ UNCHANGED <<exec, files, ncalls, hist>>

\* lines 106-108: fp.lock.Unlock(); return n, err
ReadAt_106(t) ==
    /\ thread[t].pc = "ReadAt_106"
    /\ Unlock(t)
    /\ thread' = [thread EXCEPT ![t] =
                    Returned(t, [f |-> NilFile, n |-> thread[t].n, err |-> thread[t].err])]
    /\ UNCHANGED <<exec, files, ncalls>>

\* ------------------------------------------------------------------------
\* statsCollectingFileReadWriter.updateSizeLocked (lines 89-97), called by
\* WriteAt (line 120) and Truncate (line 135) with the pool lock held
\* ------------------------------------------------------------------------
\* lines 90-91: fp := f.pool; fp.totalSize -= f.size
updateSizeLocked_90(t) ==
    /\ thread[t].pc = "updateSizeLocked_90"
    /\ LET fp == files[thread[t].f].pool IN
       IF fp = NilPool
       THEN /\ thread' = [thread EXCEPT ![t].pc = "panic"]
            /\ UNCHANGED pool
       ELSE /\ pool' = [pool EXCEPT ![fp].totalSize =
                            Sub64(@, files[thread[t].f].size)]
            /\ thread' = [thread EXCEPT ![t].usl_fp = fp,
                                        ![t].pc = "updateSizeLocked_92"]
    /\ UNCHANGED <<exec, files, ncalls, hist>>

\* line 92: f.size = newSize
updateSizeLocked_92(t) ==
    /\ thread[t].pc = "updateSizeLocked_92"
    /\ files' = [files EXCEPT ![thread[t].f].size = thread[t].newSize]
    /\ thread' = [thread EXCEPT ![t].pc = "updateSizeLocked_93"]
    /\ UNCHANGED <<exec, pool, ncalls, hist>>

\* line 93: fp.totalSize += f.size
updateSizeLocked_93(t) ==
    /\ thread[t].pc = "updateSizeLocked_93"
    /\ pool' = [pool EXCEPT ![thread[t].usl_fp].totalSize =
                    Add64(@, files[thread[t].f].size)]
    /\ thread' = [thread EXCEPT ![t].pc = "updateSizeLocked_94"]
    /\ UNCHANGED <<exec, files, ncalls, hist>>

\* updateSizeLocked that compares the peak with the size of the one handle
updateSizeLocked_94_PeakOfHandle(t) ==
    /\ thread[t].pc = "updateSizeLocked_94"
    /\ LET fp == thread[t].usl_fp
           size == files[thread[t].f].size
       IN  pool' = [pool EXCEPT ![fp].stats.FilesSizeBytesPeak =
                        IF @ < size THEN size ELSE @]
    /\ thread' = [thread EXCEPT ![t].usl_fp = NilPool,
                    ![t].pc = IF thread[t].op = "WriteAt" THEN "WriteAt_123"
                                                        ELSE "Truncate_137"]
    /\ UNCHANGED <<exec, files, ncalls, hist>>

\* updateSizeLocked that sets the peak to the total without comparing them
updateSizeLocked_94_Unconditional(t) ==
    /\ thread[t].pc = "updateSizeLocked_94"
    /\ LET fp == thread[t].usl_fp IN
       pool' = [pool EXCEPT ![fp].stats.FilesSizeBytesPeak = pool[fp].totalSize]
    /\ thread' = [thread EXCEPT ![t].usl_fp = NilPool,
                    ![t].pc = IF thread[t].op = "WriteAt" THEN "WriteAt_123"
                                                        ELSE "Truncate_137"]
    /\ UNCHANGED <<exec, files, ncalls, hist>>

\* lines 94-96: if fp.stats.FilesSizeBytesPeak < fp.totalSize { ... = fp.totalSize },
\* then back to the caller: line 123 of WriteAt or line 137 of Truncate
updateSizeLocked_94(t) ==
    /\ thread[t].pc = "updateSizeLocked_94"
    /\ LET fp == thread[t].usl_fp IN
       pool' = [pool EXCEPT ![fp].stats.FilesSizeBytesPeak =
                    IF @ < pool[fp].totalSize THEN pool[fp].totalSize ELSE @]
    /\ thread' = [thread EXCEPT ![t].usl_fp = NilPool,
                    ![t].pc = IF thread[t].op = "WriteAt" THEN "WriteAt_123"
                                                        ELSE "Truncate_137"]
    /\ UNCHANGED <<exec, files, ncalls, hist>>

\* ------------------------------------------------------------------------
\* statsCollectingFileReadWriter.WriteAt (lines 111-126)
\* ------------------------------------------------------------------------
\* lines 111-112: goroutine t calls f.WriteAt(p, off), p standing for len(p),
\* and enters f.FileReadWriter.WriteAt(p, off); a nil FileReadWriter panics
Call_WriteAt(t, f, p, off) ==
    /\ thread[t].pc = "idle"
    /\ f \in DOMAIN files
    /\ ncalls < MaxOps
    /\ ncalls' = ncalls + 1
    /\ thread' = [thread EXCEPT ![t] =
                    IF ~files[f].FileReadWriter
                    THEN [IdleThread EXCEPT !.pc = "panic", !.op = "WriteAt"]
                    ELSE [IdleThread EXCEPT !.pc = "WriteAt_112", !.op = "WriteAt",
                                            !.f = f, !.p = p, !.off = off]]
    /\ UNCHANGED <<exec, pool, files, hist>>

\* lines 112-114: n, err := f.FileReadWriter.WriteAt(p, off) returns, with
\* any 0 <= n <= len(p) and any error; fp := f.pool
WriteAt_112(t) ==
    /\ thread[t].pc = "WriteAt_112"
    /\ LET f == thread[t].f IN
       \E n \in 0..thread[t].p, err \in Errors :
            /\ thread' = [thread EXCEPT ![t].n = n, ![t].err = err,
                                        ![t].p = 0,
                                        ![t].fp = files[f].pool,
                                        ![t].pc = "WriteAt_115"]
            /\ hist' = [hist EXCEPT ![files[f].owner].writes = @ + 1,
                                    ![files[f].owner].writeBytes = @ + n]
    /\ UNCHANGED <<exec, pool, files, ncalls>>

\* line 115: fp.lock.Lock()
WriteAt_115(t) ==
    /\ thread[t].pc = "WriteAt_115"
    /\ Lock(t, "WriteAt_116")

\* line 116: fp.stats.WritesCount++
WriteAt_116(t) ==
    /\ thread[t].pc = "WriteAt_116"
    /\ pool' = [pool EXCEPT ![thread[t].fp].stats.WritesCount = Add64(@, 1)]
    /\ thread' = [thread EXCEPT ![t].pc = "WriteAt_117"]
    /\ UNCHANGED <<exec, files, ncalls, hist>>

\* WriteAt that counts the bytes asked for, len(p), not the bytes written
WriteAt_117_Requested(t) ==
    /\ thread[t].pc = "WriteAt_117"
    /\ pool' = [pool EXCEPT ![thread[t].fp].stats.WritesSizeBytes =
                    Add64(@, uint64(MaxLen))]
    /\ thread' = [thread EXCEPT ![t].pc = "WriteAt_118"]
    /\ UNCHANGED <<exec, files, ncalls, hist>>

\* line 117: fp.stats.WritesSizeBytes += uint64(n)
WriteAt_117(t) ==
    /\ thread[t].pc = "WriteAt_117"
    /\ pool' = [pool EXCEPT ![thread[t].fp].stats.WritesSizeBytes =
                    Add64(@, uint64(thread[t].n))]
    /\ thread' = [thread EXCEPT ![t].pc = "WriteAt_118"]
    /\ UNCHANGED <<exec, files, ncalls, hist>>

\* WriteAt that leaves the size alone when the inner write returned an error
WriteAt_118_OnlyOnSuccess(t) ==
    /\ thread[t].pc = "WriteAt_118"
    /\ LET newSize == Add64(uint64(thread[t].off), uint64(thread[t].n)) IN
       IF thread[t].err = "nil" /\ thread[t].n > 0
            /\ newSize > files[thread[t].f].size
       THEN thread' = [thread EXCEPT ![t].newSize = newSize,
                                     ![t].pc = "updateSizeLocked_90"]
       ELSE thread' = [thread EXCEPT ![t].pc = "WriteAt_123"]
    /\ UNCHANGED <<exec, pool, files, ncalls, hist>>

\* lines 118-122: if n > 0 { if newSize := uint64(off) + uint64(n);
\* newSize > f.size { f.updateSizeLocked(newSize) } }
WriteAt_118(t) ==
    /\ thread[t].pc = "WriteAt_118"
    /\ LET newSize == Add64(uint64(thread[t].off), uint64(thread[t].n)) IN
       IF thread[t].n > 0 /\ newSize > files[thread[t].f].size
       THEN thread' = [thread EXCEPT ![t].newSize = newSize,
                                     ![t].pc = "updateSizeLocked_90"]
       ELSE thread' = [thread EXCEPT ![t].pc = "WriteAt_123"]
    /\ UNCHANGED <<exec, pool, files, ncalls, hist>>

\* lines 123-125: fp.lock.Unlock(); return n, err
WriteAt_123(t) ==
    /\ thread[t].pc = "WriteAt_123"
    /\ Unlock(t)
    /\ thread' = [thread EXCEPT ![t] =
                    Returned(t, [f |-> NilFile, n |-> thread[t].n, err |-> thread[t].err])]
    /\ UNCHANGED <<exec, files, ncalls>>

\* ------------------------------------------------------------------------
\* statsCollectingFileReadWriter.Truncate (lines 128-140)
\* ------------------------------------------------------------------------
\* lines 128-129: goroutine t calls f.Truncate(length) and enters
\* f.FileReadWriter.Truncate(length); a nil FileReadWriter panics
Call_Truncate(t, f, length) ==
    /\ thread[t].pc = "idle"
    /\ f \in DOMAIN files
    /\ ncalls < MaxOps
    /\ ncalls' = ncalls + 1
    /\ thread' = [thread EXCEPT ![t] =
                    IF ~files[f].FileReadWriter
                    THEN [IdleThread EXCEPT !.pc = "panic", !.op = "Truncate"]
                    ELSE [IdleThread EXCEPT !.pc = "Truncate_129", !.op = "Truncate",
                                            !.f = f, !.length = length]]
    /\ UNCHANGED <<exec, pool, files, hist>>

\* lines 129-131: err := f.FileReadWriter.Truncate(length) returns; fp := f.pool
Truncate_129(t) ==
    /\ thread[t].pc = "Truncate_129"
    /\ LET f == thread[t].f IN
       \E err \in Errors :
            /\ thread' = [thread EXCEPT ![t].err = err,
                                        ![t].fp = files[f].pool,
                                        ![t].pc = "Truncate_132"]
            /\ hist' = [hist EXCEPT ![files[f].owner].truncates = @ + 1]
    /\ UNCHANGED <<exec, pool, files, ncalls>>

\* line 132: fp.lock.Lock()
Truncate_132(t) ==
    /\ thread[t].pc = "Truncate_132"
    /\ Lock(t, "Truncate_133")

\* line 133: fp.stats.TruncatesCount++
Truncate_133(t) ==
    /\ thread[t].pc = "Truncate_133"
    /\ pool' = [pool EXCEPT ![thread[t].fp].stats.TruncatesCount = Add64(@, 1)]
    /\ thread' = [thread EXCEPT ![t].pc = "Truncate_134"]
    /\ UNCHANGED <<exec, files, ncalls, hist>>

\* Truncate that sets the size whether or not the inner truncate failed
Truncate_134_IgnoresError(t) ==
    /\ thread[t].pc = "Truncate_134"
    /\ thread' = [thread EXCEPT ![t].newSize = uint64(thread[t].length),
                                ![t].pc = "updateSizeLocked_90"]
    /\ UNCHANGED <<exec, pool, files, ncalls, hist>>

\* lines 134-136: if err == nil { f.updateSizeLocked(uint64(length)) }
Truncate_134(t) ==
    /\ thread[t].pc = "Truncate_134"
    /\ IF thread[t].err = "nil"
       THEN thread' = [thread EXCEPT ![t].newSize = uint64(thread[t].length),
                                     ![t].pc = "updateSizeLocked_90"]
       ELSE thread' = [thread EXCEPT ![t].pc = "Truncate_137"]
    /\ UNCHANGED <<exec, pool, files, ncalls, hist>>

\* lines 137-139: fp.lock.Unlock(); return err
Truncate_137(t) ==
    /\ thread[t].pc = "Truncate_137"
    /\ Unlock(t)
    /\ thread' = [thread EXCEPT ![t] =
                    Returned(t, [f |-> NilFile, n |-> 0, err |-> thread[t].err])]
    /\ UNCHANGED <<exec, files, ncalls>>

\* ------------------------------------------------------------------------
\* statsCollectingFileReadWriter.Close (lines 142-154)
\* ------------------------------------------------------------------------
\* lines 142-143: goroutine t calls f.Close() and enters
\* f.FileReadWriter.Close(); a nil FileReadWriter panics
Call_Close(t, f) ==
    /\ thread[t].pc = "idle"
    /\ f \in DOMAIN files
    /\ thread' = [thread EXCEPT ![t] =
                    IF ~files[f].FileReadWriter
                    THEN [IdleThread EXCEPT !.pc = "panic", !.op = "Close"]
                    ELSE [IdleThread EXCEPT !.pc = "Close_143", !.op = "Close",
                                            !.f = f]]
    /\ UNCHANGED <<exec, pool, files, ncalls, hist>>

\* Close that leaves f.FileReadWriter as it is
Close_143_KeepsInner(t) ==
    /\ thread[t].pc = "Close_143"
    /\ \E err \in Errors :
            thread' = [thread EXCEPT ![t].err = err,
                                     ![t].fp = files[thread[t].f].pool,
                                     ![t].pc = "Close_147"]
    /\ UNCHANGED <<exec, pool, files, ncalls, hist>>

\* lines 143-146: err := f.FileReadWriter.Close() returns;
\* f.FileReadWriter = nil; fp := f.pool
Close_143(t) ==
    /\ thread[t].pc = "Close_143"
    /\ LET f == thread[t].f IN
       /\ \E err \in Errors :
            thread' = [thread EXCEPT ![t].err = err,
                                     ![t].fp = files[f].pool,
                                     ![t].pc = "Close_147"]
       /\ files' = [files EXCEPT ![f].FileReadWriter = FALSE]
    /\ UNCHANGED <<exec, pool, ncalls, hist>>

\* line 147: fp.lock.Lock()
Close_147(t) ==
    /\ thread[t].pc = "Close_147"
    /\ Lock(t, "Close_148")

\* Close that takes the file off the peak count as well
Close_148_LowersPeak(t) ==
    /\ thread[t].pc = "Close_148"
    /\ pool' = [pool EXCEPT ![thread[t].fp].totalFiles = Sub64(@, 1),
                            ![thread[t].fp].stats.FilesCountPeak = Sub64(@, 1)]
    /\ thread' = [thread EXCEPT ![t].pc = "Close_149"]
    /\ UNCHANGED <<exec, files, ncalls, hist>>

\* Close that keeps counting a file whose inner Close failed
Close_148_OnlyOnSuccess(t) ==
    /\ thread[t].pc = "Close_148"
    /\ pool' = [pool EXCEPT ![thread[t].fp].totalFiles =
                    IF thread[t].err = "nil" THEN Sub64(@, 1) ELSE @]
    /\ thread' = [thread EXCEPT ![t].pc = "Close_149"]
    /\ UNCHANGED <<exec, files, ncalls, hist>>

\* line 148: fp.totalFiles--
Close_148(t) ==
    /\ thread[t].pc = "Close_148"
    /\ pool' = [pool EXCEPT ![thread[t].fp].totalFiles = Sub64(@, 1)]
    /\ thread' = [thread EXCEPT ![t].pc = "Close_149"]
    /\ UNCHANGED <<exec, files, ncalls, hist>>

\* Close that forgets to take the size of the handle off the total
Close_149_KeepsSize(t) ==
    /\ thread[t].pc = "Close_149"
    /\ thread' = [thread EXCEPT ![t].pc = "Close_150"]
    /\ UNCHANGED <<exec, pool, files, ncalls, hist>>

\* line 149: fp.totalSize -= f.size
Close_149(t) ==
    /\ thread[t].pc = "Close_149"
    /\ pool' = [pool EXCEPT ![thread[t].fp].totalSize =
                    Sub64(@, files[thread[t].f].size)]
    /\ thread' = [thread EXCEPT ![t].pc = "Close_150"]
    /\ UNCHANGED <<exec, files, ncalls, hist>>

\* line 150: fp.lock.Unlock()
Close_150(t) ==
    /\ thread[t].pc = "Close_150"
    /\ Unlock(t)
    /\ thread' = [thread EXCEPT ![t].pc = "Close_151", ![t].pre = NoPre]
    /\ UNCHANGED <<exec, files, ncalls>>

\* lines 151-153: f.pool = nil; return err
Close_151(t) ==
    /\ thread[t].pc = "Close_151"
    /\ files' = [files EXCEPT ![thread[t].f].pool = NilPool]
    /\ thread' = [thread EXCEPT ![t] =
                    Returned(t, [f |-> NilFile, n |-> 0, err |-> thread[t].err])]
    /\ UNCHANGED <<exec, pool, ncalls, hist>>

\* the caller takes the values a call returned and goes on
Caller_Resume(t) ==
    /\ thread[t].pc = "returned"
    /\ thread' = [thread EXCEPT ![t] = IdleThread]
    /\ UNCHANGED <<exec, pool, files, ncalls, hist>>

\* ------------------------------------------------------------------------
\* filePoolStatsBuildExecutor.Execute (lines 32-46)
\* ------------------------------------------------------------------------
\* The responses the inner executor returns with both response.Result and
\* response.Result.ExecutionMetadata set: of an action that succeeded, with
\* no auxiliary metadata, and of one that failed, with an entry.
FullResponses ==
    {[Status |-> "OK", Result |-> "full", AuxiliaryMetadata |-> <<>>,
      errors |-> <<>>],
     [Status |-> "FAILED", Result |-> "full", AuxiliaryMetadata |-> <<OtherEntry>>,
      errors |-> <<>>]}

\* what anypb.New can return as its error
MarshalErrors == {"nil", "EMARSHAL"}

\* anypb.New(&stats): the message wrapped with the URL of its type
anypb_New(stats) ==
    [type_url |-> "type.googleapis.com/buildbarn.resourceusage.FilePoolResourceUsage",
     value |-> stats]

\* util.StatusWrap(err, msg): err with msg put in front of its message
StatusWrap(err, msg) == [msg |-> msg, cause |-> err]

\* attachErrorToExecuteResponse(response, err): the error is recorded on
\* the response, whose other fields stay as they are
attachErrorToExecuteResponse(response, err) ==
    [response EXCEPT !.errors = Append(@, err)]

\* Execute that goes on with the pool of the executor's first invocation
\* in place of a pool of its own
Execute_33_KeepsPool(e) ==
    /\ exec[e].pc = "idle"
    /\ pool' = [pool EXCEPT ![e] = [pool[1] EXCEPT !.lock = FALSE]]
    /\ exec' = [exec EXCEPT ![e].pc = "Execute_34"]
    /\ UNCHANGED <<files, thread, ncalls, hist>>

\* line 33, and line 34 up to the call: fp := statsCollectingFilePool{base:
\* filePool}; be.buildExecutor.Execute(ctx, &fp, ...) is entered
Execute_33(e) ==
    /\ exec[e].pc = "idle"
    /\ pool' = [pool EXCEPT ![e] = NewPool]
    /\ exec' = [exec EXCEPT ![e].pc = "Execute_34"]
    /\ UNCHANGED <<files, thread, ncalls, hist>>

\* line 34: response := be.buildExecutor.Execute(...) returns.  Goroutines
\* the inner executor started may still be using handles of the pool.
Execute_34(e, response) ==
    /\ exec[e].pc = "Execute_34"
    /\ exec' = [exec EXCEPT ![e].response = response, ![e].pc = "Execute_36"]
    /\ hist' = [hist EXCEPT ![e].innerResponse = response]
    /\ UNCHANGED <<pool, files, thread, ncalls>>

\* Execute that goes on to read the statistics without waiting for the lock
Execute_36_NoLock(e) ==
    /\ exec[e].pc = "Execute_36"
    /\ exec' = [exec EXCEPT ![e].pc = "Execute_37"]
    /\ UNCHANGED <<pool, files, thread, ncalls, hist>>

\* line 36: fp.lock.Lock()
Execute_36(e) ==
    /\ exec[e].pc = "Execute_36"
    /\ ~pool[e].lock
    /\ pool' = [pool EXCEPT ![e].lock = TRUE]
    /\ exec' = [exec EXCEPT ![e].pc = "Execute_37"]
    /\ UNCHANGED <<files, thread, ncalls, hist>>

\* line 37: stats := fp.stats
Execute_37(e) ==
    /\ exec[e].pc = "Execute_37"
    /\ exec' = [exec EXCEPT ![e].stats = pool[e].stats, ![e].pc = "Execute_38"]
    /\ UNCHANGED <<pool, files, thread, ncalls, hist>>

\* line 38: fp.lock.Unlock()
Execute_38(e) ==
    /\ exec[e].pc = "Execute_38"
    /\ pool' = [pool EXCEPT ![e].lock = FALSE]
    /\ hist' = [hist EXCEPT ![e] = Observed(e)]
    /\ exec' = [exec EXCEPT ![e].pc = "Execute_40"]
    /\ UNCHANGED <<files, thread, ncalls>>

\* Execute that appends the entry whether or not anypb.New failed
Execute_40_AppendsAnyway(e, err) ==
    /\ exec[e].pc = "Execute_40"
    /\ LET response == [exec[e].response EXCEPT
                            !.AuxiliaryMetadata = Append(@, anypb_New(exec[e].stats))]
       IN  exec' = [exec EXCEPT
                    ![e].response = IF err = "nil" THEN response
                        ELSE attachErrorToExecuteResponse(response,
                                StatusWrap(err, "Failed to marshal file pool resource usage")),
                    ![e].pc = "Execute_45"]
    /\ hist' = [hist EXCEPT ![e].marshalErr = err]
    /\ UNCHANGED <<pool, files, thread, ncalls>>

\* lines 40-44: if resourceUsage, err := anypb.New(&stats); err == nil {
\* append to response.Result.ExecutionMetadata.AuxiliaryMetadata } else {
\* attachErrorToExecuteResponse(...) }.  Line 41 dereferences
\* response.Result and response.Result.ExecutionMetadata.
Execute_40(e, err) ==
    /\ exec[e].pc = "Execute_40"
    /\ LET response == exec[e].response IN
       IF err = "nil"
       THEN IF response.Result # "full"
            THEN exec' = [exec EXCEPT ![e].pc = "panic"]
            ELSE exec' = [exec EXCEPT
                    ![e].response.AuxiliaryMetadata =
                        Append(@, anypb_New(exec[e].stats)),
                    ![e].pc = "Execute_45"]
       ELSE exec' = [exec EXCEPT
                    ![e].response = attachErrorToExecuteResponse(response,
                        StatusWrap(err, "Failed to marshal file pool resource usage")),
                    ![e].pc = "Execute_45"]
    /\ hist' = [hist EXCEPT ![e].marshalErr = err]
    /\ UNCHANGED <<pool, files, thread, ncalls>>

\* line 45: return response
Execute_45(e) ==
    /\ exec[e].pc = "Execute_45"
    /\ exec' = [exec EXCEPT ![e].ret = exec[e].response, ![e].pc = "returned"]
    /\ UNCHANGED <<pool, files, thread, ncalls, hist>>

\* ------------------------------------------------------------------------
\* The callers.  The inner executor uses the pool while it runs and is done
\* with it when it returns; it uses a handle the way the FileReadWriter
\* interface asks: on a handle it got from NewFile, not after Close was
\* called on it, and Close only once no other call on the handle is running.
\* ------------------------------------------------------------------------
\* Close has been called on handle f
CloseCalled(f) ==
    \/ ~files[f].FileReadWriter
    \/ \E t \in Threads : thread[t].op = "Close" /\ thread[t].f = f

\* some goroutine is inside a call on handle f
InFlight(f) ==
    \E t \in Threads : thread[t].f = f /\ thread[t].pc \notin {"idle", "returned"}

\* NewFile has handed handle f to its caller
Handed(f) ==
    ~\E t \in Threads : thread[t].op = "NewFile" /\ thread[t].ret.f = f

\* the inner executor of invocation e is running
Running(e) == exec[e].pc = "Execute_34"

\* every goroutine is back in the inner executor
Joined == \A t \in Threads : thread[t].pc = "idle"

CanUse(f) == Handed(f) /\ ~CloseCalled(f) /\ Running(files[f].owner)
CanClose(f) == CanUse(f) /\ ~InFlight(f)

Lens == 1..MaxLen
Offsets == 0..MaxOff
Lengths == 0..MaxLength

ThreadStep(t) ==
    \/ NewFile_60(t) \/ NewFile_62(t) \/ NewFile_65(t) \/ NewFile_66(t)
    \/ NewFile_67(t) \/ NewFile_68(t) \/ NewFile_71(t)
    \/ ReadAt_100(t) \/ ReadAt_103(t) \/ ReadAt_104(t) \/ ReadAt_105(t)
    \/ ReadAt_106(t)
    \/ WriteAt_112(t) \/ WriteAt_115(t) \/ WriteAt_116(t) \/ WriteAt_117(t)
    \/ WriteAt_118(t) \/ WriteAt_123(t)
    \/ updateSizeLocked_90(t) \/ updateSizeLocked_92(t)
    \/ updateSizeLocked_93(t) \/ updateSizeLocked_94(t)
    \/ Truncate_129(t) \/ Truncate_132(t) \/ Truncate_133(t)
    \/ Truncate_134(t) \/ Truncate_137(t)
    \/ Close_143(t) \/ Close_147(t) \/ Close_148(t) \/ Close_149(t)
    \/ Close_150(t) \/ Close_151(t)
    \/ Caller_Resume(t)

ExecuteStep(e) ==
    \/ Execute_33(e)
    \/ \E response \in FullResponses : Joined /\ Execute_34(e, response)
    \/ Execute_36(e) \/ Execute_37(e) \/ Execute_38(e)
    \/ \E err \in MarshalErrors : Execute_40(e, err)
    \/ Execute_45(e)

\* a call by goroutine t that keeps to the use the interface asks for
ValidCall(t) ==
    \/ \E e \in Invocations : Running(e) /\ Call_NewFile(t, e)
    \/ \E f \in DOMAIN files, p \in Lens, off \in Offsets :
            CanUse(f) /\ Call_ReadAt(t, f, p, off)
    \/ \E f \in DOMAIN files, p \in Lens, off \in Offsets :
            CanUse(f) /\ Call_WriteAt(t, f, p, off)
    \/ \E f \in DOMAIN files, length \in Lengths :
            CanUse(f) /\ Call_Truncate(t, f, length)
    \/ \E f \in DOMAIN files : CanClose(f) /\ Call_Close(t, f)

\* One Execute invocation whose inner executor returns a full response,
\* once its goroutines are done, and uses the handles validly.
Next ==
    /\ ~Panicked
    /\ \/ \E e \in SingleInvocation : ExecuteStep(e)
       \/ \E t \in Threads : ThreadStep(t)
       \/ \E t \in Threads : ValidCall(t)

Spec == Init /\ [][Next]_vars

\* ------------------------------------------------------------------------
\* An inner executor that returns while goroutines it started go on creating
\* files and writing to them.
\* ------------------------------------------------------------------------
DetachedExecuteStep(e) ==
    \/ Execute_33(e)
    \/ \E response \in FullResponses : Execute_34(e, response)
    \/ Execute_36(e) \/ Execute_37(e) \/ Execute_38(e)
    \/ \E err \in MarshalErrors : Execute_40(e, err)
    \/ Execute_45(e)

DetachedThreadStep(t) ==
    \/ NewFile_60(t) \/ NewFile_62(t) \/ NewFile_65(t) \/ NewFile_66(t)
    \/ NewFile_67(t) \/ NewFile_68(t) \/ NewFile_71(t)
    \/ WriteAt_112(t) \/ WriteAt_115(t) \/ WriteAt_116(t) \/ WriteAt_117(t)
    \/ WriteAt_118(t) \/ WriteAt_123(t)
    \/ updateSizeLocked_90(t) \/ updateSizeLocked_92(t)
    \/ updateSizeLocked_93(t) \/ updateSizeLocked_94(t)
    \/ Caller_Resume(t)

DetachedCall(t) ==
    \/ \E e \in Invocations : exec[e].pc # "idle" /\ Call_NewFile(t, e)
    \/ \E f \in DOMAIN files, p \in Lens, off \in Offsets :
            Handed(f) /\ Call_WriteAt(t, f, p, off)

DetachedNext ==
    /\ ~Panicked
    /\ \/ \E e \in SingleInvocation : DetachedExecuteStep(e)
       \/ \E t \in Threads : DetachedThreadStep(t)
       \/ \E t \in Threads : DetachedCall(t)

SpecDetached == Init /\ [][DetachedNext]_vars

\* ------------------------------------------------------------------------
\* An inner executor that may return any response: the full ones, the
\* response of an action that was cancelled before it had a result, and one
\* whose result has no execution metadata.
\* ------------------------------------------------------------------------
Responses ==
    FullResponses \cup
    {[Status |-> "CANCELLED", Result |-> "nil", AuxiliaryMetadata |-> <<>>,
      errors |-> <<>>],
     [Status |-> "FAILED", Result |-> "noMetadata", AuxiliaryMetadata |-> <<>>,
      errors |-> <<>>]}

AnyResponseExecuteStep(e) ==
    \/ Execute_33(e)
    \/ \E response \in Responses : Joined /\ Execute_34(e, response)
    \/ Execute_36(e) \/ Execute_37(e) \/ Execute_38(e)
    \/ \E err \in MarshalErrors : Execute_40(e, err)
    \/ Execute_45(e)

AnyResponseNext ==
    /\ ~Panicked
    /\ \/ \E e \in SingleInvocation : AnyResponseExecuteStep(e)
       \/ \E t \in Threads : ThreadStep(t)
       \/ \E t \in Threads : ValidCall(t)

SpecAnyResponse == Init /\ [][AnyResponseNext]_vars

\* ------------------------------------------------------------------------
\* Two Execute invocations on the one executor, over the one underlying
\* file pool (files holds the handles of both), one after the other or at
\* the same time.  Goroutine t is run by the inner executor of WorksFor(t).
\* ------------------------------------------------------------------------
\* the pool a goroutine that is inside a call works on
ThreadPool(t) ==
    IF thread[t].op = "NewFile" THEN thread[t].fp
    ELSE IF thread[t].f = NilFile THEN NilPool
    ELSE files[thread[t].f].owner

\* the inner executor of invocation e has no goroutine left in a call
JoinedFor(e) ==
    \A t \in Threads :
        IF thread[t].pc = "idle" THEN TRUE
        ELSE thread[t].pc # "returned" /\ ThreadPool(t) # e

\* the response of an action that succeeded
OKResponse ==
    [Status |-> "OK", Result |-> "full", AuxiliaryMetadata |-> <<>>, errors |-> <<>>]

TwoExecuteStep(e) ==
    \/ Execute_33(e)
    \/ JoinedFor(e) /\ Execute_34(e, OKResponse)
    \/ Execute_36(e) \/ Execute_37(e) \/ Execute_38(e)
    \/ Execute_40(e, "nil")
    \/ Execute_45(e)

\* the invocation whose inner executor runs goroutine t
WorksFor(t) == ((t - 1) % NumExec) + 1

\* a call by goroutine t for its inner executor, keeping to the use the
\* interface asks for
TwoCall(t) ==
    \/ Running(WorksFor(t)) /\ Call_NewFile(t, WorksFor(t))
    \/ \E f \in DOMAIN files, p \in Lens, off \in Offsets :
            CanUse(f) /\ files[f].owner = WorksFor(t) /\ Call_ReadAt(t, f, p, off)
    \/ \E f \in DOMAIN files, p \in Lens, off \in Offsets :
            CanUse(f) /\ files[f].owner = WorksFor(t) /\ Call_WriteAt(t, f, p, off)
    \/ \E f \in DOMAIN files, length \in Lengths :
            CanUse(f) /\ files[f].owner = WorksFor(t) /\ Call_Truncate(t, f, length)
    \/ \E f \in DOMAIN files :
            CanClose(f) /\ files[f].owner = WorksFor(t) /\ Call_Close(t, f)

TwoNext ==
    /\ ~Panicked
    /\ \/ \E e \in Invocations : TwoExecuteStep(e)
       \/ \E t \in Threads : ThreadStep(t)
       \/ \E t \in Threads : TwoCall(t)

SpecTwo == Init /\ [][TwoNext]_vars

\* ------------------------------------------------------------------------
\* Callers that also go on using a handle after Close has completed on it.
\* ------------------------------------------------------------------------
\* Close has completed on handle f (line 151 has run)
CloseCompleted(f) == files[f].pool = NilPool

\* a call by goroutine t on a handle on which Close has completed
CallAfterClose(t) ==
    \/ \E f \in DOMAIN files, p \in Lens, off \in Offsets :
            CloseCompleted(f) /\ Call_ReadAt(t, f, p, off)
    \/ \E f \in DOMAIN files, p \in Lens, off \in Offsets :
            CloseCompleted(f) /\ Call_WriteAt(t, f, p, off)
    \/ \E f \in DOMAIN files, length \in Lengths :
            CloseCompleted(f) /\ Call_Truncate(t, f, length)
    \/ \E f \in DOMAIN files : CloseCompleted(f) /\ Call_Close(t, f)

MisuseNext ==
    /\ ~Panicked
    /\ \/ \E e \in SingleInvocation : ExecuteStep(e)
       \/ \E t \in Threads : ThreadStep(t)
       \/ \E t \in Threads : ValidCall(t)
       \/ \E t \in Threads : CallAfterClose(t)

SpecMisuse == Init /\ [][MisuseNext]_vars

\* ------------------------------------------------------------------------
\* Callers that call Close on a handle while a WriteAt or a Truncate they
\* started on it before is still in progress.
\* ------------------------------------------------------------------------
\* the calls in progress on handle f are writes and truncates, at least one
WritesInFlight(f) ==
    /\ InFlight(f)
    /\ \A t \in Threads :
        thread[t].f = f /\ thread[t].pc \notin {"idle", "returned"}
            => thread[t].op \in {"WriteAt", "Truncate"}

OverlappingClose(t) ==
    \E f \in DOMAIN files : CanUse(f) /\ WritesInFlight(f) /\ Call_Close(t, f)

OverlapNext ==
    /\ ~Panicked
    /\ \/ \E e \in SingleInvocation : ExecuteStep(e)
       \/ \E t \in Threads : ThreadStep(t)
       \/ \E t \in Threads : ValidCall(t)
       \/ \E t \in Threads : OverlappingClose(t)

SpecOverlap == Init /\ [][OverlapNext]_vars

\* ------------------------------------------------------------------------
\* Callers that write and truncate at the far end of the int64 range: off
\* and length are int64 (lines 111, 128), whose largest value is half of
\* 2^64 less one.
\* ------------------------------------------------------------------------
MaxInt64 == UintModulus \div 2 - 1
LargeOffsets == {0, MaxInt64}
LargeLengths == {0, MaxInt64}

LargeThreadStep(t) ==
    \/ NewFile_60(t) \/ NewFile_62(t) \/ NewFile_65(t) \/ NewFile_66(t)
    \/ NewFile_67(t) \/ NewFile_68(t) \/ NewFile_71(t)
    \/ WriteAt_112(t) \/ WriteAt_115(t) \/ WriteAt_116(t) \/ WriteAt_117(t)
    \/ WriteAt_118(t) \/ WriteAt_123(t)
    \/ updateSizeLocked_90(t) \/ updateSizeLocked_92(t)
    \/ updateSizeLocked_93(t) \/ updateSizeLocked_94(t)
    \/ Truncate_129(t) \/ Truncate_132(t) \/ Truncate_133(t)
    \/ Truncate_134(t) \/ Truncate_137(t)
    \/ Close_143(t) \/ Close_147(t) \/ Close_148(t) \/ Close_149(t)
    \/ Close_150(t) \/ Close_151(t)
    \/ Caller_Resume(t)

\* a call by goroutine t that keeps to the use the interface asks for, with
\* offsets and lengths that are not negative
LargeCall(t) ==
    \/ \E e \in Invocations : Running(e) /\ Call_NewFile(t, e)
    \/ \E f \in DOMAIN files, p \in Lens, off \in LargeOffsets :
            CanUse(f) /\ Call_WriteAt(t, f, p, off)
    \/ \E f \in DOMAIN files, length \in LargeLengths :
            CanUse(f) /\ Call_Truncate(t, f, length)
    \/ \E f \in DOMAIN files : CanClose(f) /\ Call_Close(t, f)

LargeNext ==
    /\ ~Panicked
    /\ \/ \E e \in SingleInvocation : ExecuteStep(e)
       \/ \E t \in Threads : LargeThreadStep(t)
       \/ \E t \in Threads : LargeCall(t)

SpecLarge == Init /\ [][LargeNext]_vars

\* ------------------------------------------------------------------------
\* What the properties are stated in.
\* ------------------------------------------------------------------------
\* Close has done its bookkeeping for handle f (lines 148-149)
Closed(f) ==
    \/ files[f].pool = NilPool
    \/ \E t \in Threads : thread[t].op = "Close" /\ thread[t].f = f
                            /\ thread[t].pc = "Close_151"

\* the handles of pool e that were created and are not yet closed
LiveHandles(e) == {f \in DOMAIN files : files[f].owner = e /\ ~Closed(f)}

RECURSIVE SumSize(_)
SumSize(S) ==
    IF S = {} THEN 0
    ELSE LET f == CHOOSE x \in S : TRUE IN files[f].size + SumSize(S \ {f})

\* no call is in progress
AllCompleted == \A t \in Threads : thread[t].pc \in {"idle", "returned"}

\* goroutine t takes a step
Steps(t) == thread'[t] # thread[t]

\* C1: whenever the lock of a pool is free, totalFiles is the number of the
\* pool's handles that were created and are not yet closed, and totalSize
\* is the sum of the size fields of exactly those handles.
C1_LiveAggregates ==
    \A e \in Invocations :
        ~pool[e].lock =>
            /\ pool[e].totalFiles = Cardinality(LiveHandles(e))
            /\ pool[e].totalSize = SumSize(LiveHandles(e))

\* two handles with a size were created, one of them is closed, no lock held
C1_Witness ==
    \E e \in Invocations, f, g \in DOMAIN files :
        /\ ~pool[e].lock
        /\ files[f].owner = e /\ files[g].owner = e
        /\ ~Closed(f) /\ files[f].size > 0
        /\ Closed(g) /\ files[g].size > 0
        /\ pool[e].totalSize = files[f].size

\* C2 as stated: in every reachable state the recorded peaks are at least
\* the live aggregates, FilesCountPeak >= totalFiles and
\* FilesSizeBytesPeak >= totalSize.
C2_PeaksInEveryState ==
    \A e \in Invocations :
        /\ pool[e].stats.FilesCountPeak >= pool[e].totalFiles
        /\ pool[e].stats.FilesSizeBytesPeak >= pool[e].totalSize

\* C2 as amended: whenever the lock of a pool is free, the recorded peaks
\* are at least the live aggregates, which are then the number and the sum
\* of sizes of the open handles.
C2_PeaksWhenUnlocked ==
    \A e \in Invocations :
        ~pool[e].lock =>
            /\ pool[e].stats.FilesCountPeak >= pool[e].totalFiles
            /\ pool[e].stats.FilesSizeBytesPeak >= pool[e].totalSize
            /\ pool[e].stats.FilesCountPeak >= Cardinality(LiveHandles(e))
            /\ pool[e].stats.FilesSizeBytesPeak >= SumSize(LiveHandles(e))

\* one of two handles is closed again, the other has a size that is below
\* the peak: both peaks are above the live aggregates
C2_Witness ==
    \E e \in Invocations :
        /\ ~pool[e].lock
        /\ Cardinality(LiveHandles(e)) = 1
        /\ pool[e].totalSize > 0
        /\ pool[e].stats.FilesCountPeak > pool[e].totalFiles
        /\ pool[e].stats.FilesSizeBytesPeak > pool[e].totalSize

\* C3: once every call has completed, ReadsCount, WritesCount and
\* TruncatesCount are the numbers of ReadAt, WriteAt and Truncate calls made,
\* failed or not, and ReadsSizeBytes and WritesSizeBytes are the sums of the
\* byte counts the inner handle returned.
C3_CountersAreTotals ==
    AllCompleted =>
        \A e \in Invocations :
            /\ pool[e].stats.ReadsCount = hist[e].reads
            /\ pool[e].stats.ReadsSizeBytes = hist[e].readBytes
            /\ pool[e].stats.WritesCount = hist[e].writes
            /\ pool[e].stats.WritesSizeBytes = hist[e].writeBytes
            /\ pool[e].stats.TruncatesCount = hist[e].truncates

\* two calls that ran at the same time have completed: a write the inner
\* handle failed without taking the byte asked for, and a read of one byte
C3_Witness ==
    \E t, u \in Threads :
        /\ thread[t].pc = "returned" /\ thread[t].op = "WriteAt"
        /\ thread[t].err # "nil" /\ thread[t].n < MaxLen
        /\ thread[u].pc = "returned" /\ thread[u].op = "ReadAt"
        /\ thread[u].n > 0

\* C4: once every call has completed, FilesCreated is the number of NewFile
\* calls whose inner creation succeeded.
C4_FilesCreated ==
    AllCompleted =>
        \A e \in Invocations : pool[e].stats.FilesCreated = hist[e].created

\* two creations have succeeded, one of the files is closed again, and a
\* creation has failed in the inner pool
C4_Witness ==
    \E e \in Invocations, t \in Threads :
        /\ AllCompleted
        /\ pool[e].stats.FilesCreated = 2
        /\ pool[e].totalFiles = 1
        /\ thread[t].pc = "returned" /\ thread[t].op = "NewFile"
        /\ thread[t].err # "nil"

\* a step of a NewFile call of goroutine t whose inner creation fails
FailingNewFileStep(t) ==
    /\ Steps(t)
    /\ thread'[t].op = "NewFile"
    /\ \/ thread'[t].pc = "NewFile_62"
       \/ thread'[t].pc = "returned" /\ thread'[t].err # "nil"

\* C5: a NewFile call whose inner creation fails returns the inner error and
\* no handle, and none of its steps changes a counter of a pool or a handle.
C5_NewFileFailure ==
    /\ [](\A t \in Threads :
            thread[t].pc = "returned" /\ thread[t].op = "NewFile"
                /\ thread[t].err # "nil"
            => thread[t].ret = [f |-> NilFile, n |-> 0, err |-> thread[t].err])
    /\ [][\A t \in Threads :
            FailingNewFileStep(t) => pool' = pool /\ files' = files]_vars

\* a NewFile call has failed on a pool whose counters are no longer zero
C5_Witness ==
    \E t \in Threads, e \in Invocations :
        /\ thread[t].pc = "returned" /\ thread[t].op = "NewFile"
        /\ thread[t].err # "nil"
        /\ pool[e].stats.FilesCreated > 0
        /\ pool[e].stats.FilesSizeBytesPeak > 0

\* every handle created has been closed and no call is in progress
AllClosed ==
    /\ AllCompleted
    /\ files # <<>>
    /\ \A f \in DOMAIN files : files[f].pool = NilPool

\* C6: once every created handle is closed, totalSize and totalFiles are
\* zero, and no step of a Close call changes FilesCreated, the read, write
\* and truncate counters or the two peaks.
C6_AfterClose ==
    /\ [](AllClosed => \A e \in Invocations :
                            pool[e].totalSize = 0 /\ pool[e].totalFiles = 0)
    /\ [][\A t \in Threads :
            Steps(t) /\ (thread[t].op = "Close" \/ thread'[t].op = "Close")
            => \A e \in Invocations : pool'[e].stats = pool[e].stats]_vars

\* two handles that had a size are closed, the counters are not zero
C6_Witness ==
    /\ AllClosed
    /\ Len(files) = 2
    /\ \A f \in DOMAIN files : files[f].size > 0
    /\ \E e \in Invocations :
        /\ pool[e].stats.WritesCount = 2
        /\ pool[e].stats.FilesSizeBytesPeak > 1
        /\ pool[e].stats.FilesCountPeak = 2

\* goroutine t is at the end of the critical section of a Truncate call
\* that succeeded in the inner handle and asked for less than the size the
\* handle had when the lock was taken
ShrinkingTruncateDone(t) ==
    /\ thread[t].pc = "Truncate_137"
    /\ thread[t].err = "nil"
    /\ thread[t].length < thread[t].pre.size

\* C7: a successful Truncate to a length below the size of the handle takes
\* exactly the difference off totalSize, makes the length the size of the
\* handle and leaves both peaks as they were.
C7_TruncateShrinks ==
    \A t \in Threads :
        ShrinkingTruncateDone(t) =>
            LET fp == thread[t].fp
                pre == thread[t].pre
            IN  /\ pool[fp].totalSize = pre.totalSize - (pre.size - thread[t].length)
                /\ files[thread[t].f].size = thread[t].length
                /\ pool[fp].stats.FilesSizeBytesPeak = pre.stats.FilesSizeBytesPeak
                /\ pool[fp].stats.FilesCountPeak = pre.stats.FilesCountPeak

\* a handle of size 2 has been truncated to 1
C7_Witness ==
    \E t \in Threads :
        /\ ShrinkingTruncateDone(t)
        /\ thread[t].length > 0
        /\ pool[thread[t].fp].stats.FilesSizeBytesPeak > pool[thread[t].fp].totalSize

\* C8: whenever a bookkeeping critical section has ended, FilesCountPeak is
\* the largest value totalFiles had at the end of a critical section so far
\* and FilesSizeBytesPeak is the largest value totalSize had there.
C8_PeaksAreExact ==
    \A e \in Invocations :
        ~pool[e].lock =>
            /\ pool[e].stats.FilesCountPeak = hist[e].maxTotalFiles
            /\ pool[e].stats.FilesSizeBytesPeak = hist[e].maxTotalSize

\* both live aggregates have come down from their peaks, which two
\* goroutines raised
C8_Witness ==
    \E e \in Invocations :
        /\ ~pool[e].lock
        /\ pool[e].stats.FilesCountPeak = 2 /\ pool[e].totalFiles = 1
        /\ pool[e].stats.FilesSizeBytesPeak = 2 /\ pool[e].totalSize = 1
        /\ pool[e].stats.WritesCount = 2

\* the message Execute wraps a failure of anypb.New in (line 43)
MarshalFailure(err) == StatusWrap(err, "Failed to marshal file pool resource usage")

\* invocation e has taken its copy of the statistics (line 37)
SnapshotTaken(e) == exec[e].pc \in {"Execute_38", "Execute_40", "Execute_45", "returned"}

\* C9: when anypb.New succeeds, the response Execute returns is the inner
\* executor's response with exactly one entry added behind the entries it
\* had; the values in the entry are the statistics of the pool as they were
\* committed when the copy was taken, after the inner executor returned;
\* nothing done later changes them.
C9_Snapshot ==
    /\ [](\A e \in Invocations :
            exec[e].pc = "returned" /\ hist[e].marshalErr = "nil" =>
                exec[e].ret = [hist[e].innerResponse EXCEPT
                    !.AuxiliaryMetadata = Append(@, anypb_New(exec[e].stats))])
    /\ [][\A e \in Invocations :
            /\ exec[e].pc = "Execute_37" /\ exec'[e].pc = "Execute_38"
                    => exec'[e].stats = hist[e].committed
            /\ SnapshotTaken(e) => exec'[e].stats = exec[e].stats
            /\ exec[e].pc = "returned" => exec'[e].ret = exec[e].ret]_vars

\* Execute has returned a response that had an entry before, with
\* statistics that are not zero, and a goroutine has written since
C9_Witness ==
    \E e \in Invocations :
        /\ exec[e].pc = "returned" /\ hist[e].marshalErr = "nil"
        /\ Len(exec[e].ret.AuxiliaryMetadata) = 2
        /\ exec[e].stats.WritesCount = 1
        /\ pool[e].stats.WritesCount = 2
        /\ pool[e].stats.FilesSizeBytesPeak > exec[e].stats.FilesSizeBytesPeak

\* C10: when anypb.New fails, Execute returns the inner executor's response
\* with no entry added and nothing else changed but the error, which is
\* recorded on the response.
C10_MarshalFailure ==
    \A e \in Invocations :
        hist[e].marshalErr # "nil" =>
            /\ exec[e].pc \in {"Execute_45", "returned"}
            /\ exec[e].pc = "returned" =>
                /\ exec[e].ret.AuxiliaryMetadata = hist[e].innerResponse.AuxiliaryMetadata
                /\ exec[e].ret.Status = hist[e].innerResponse.Status
                /\ exec[e].ret.Result = hist[e].innerResponse.Result
                /\ exec[e].ret.errors = <<MarshalFailure(hist[e].marshalErr)>>

\* Execute has returned a failed response that had an entry before, after
\* anypb.New failed on statistics that are not zero
C10_Witness ==
    \E e \in Invocations :
        /\ exec[e].pc = "returned" /\ hist[e].marshalErr # "nil"
        /\ exec[e].ret.Status = "FAILED"
        /\ Len(exec[e].ret.AuxiliaryMetadata) = 1
        /\ exec[e].stats.WritesSizeBytes > 0

\* C11 as stated: an Execute invocation calls the inner executor once, it
\* is in the inner executor or before it exactly as long as the inner
\* executor has not returned; whatever response the inner executor returns,
\* one without a result or without execution metadata included, Execute
\* does not stop in a panic, and the response it returns has the status and
\* the result of the inner executor's response.
C11_RelaysEveryResponse ==
    \A e \in Invocations :
        /\ exec[e].pc # "panic"
        /\ exec[e].pc \in {"idle", "Execute_34"}
                <=> hist[e].innerResponse = NoResponse
        /\ exec[e].pc = "returned" =>
            /\ exec[e].ret.Status = hist[e].innerResponse.Status
            /\ exec[e].ret.Result = hist[e].innerResponse.Result

\* Execute has returned a response that has no result, after anypb.New
\* failed on statistics that are not zero
C11_Witness ==
    \E e \in Invocations :
        /\ exec[e].pc = "returned"
        /\ exec[e].ret.Result = "nil"
        /\ exec[e].ret.Status = "CANCELLED"
        /\ exec[e].stats.FilesCreated > 0

\* goroutine t is inside a call of the inner pool or of the inner handle
InInnerCall(t) ==
    thread[t].pc \in {"NewFile_60", "ReadAt_100", "WriteAt_112", "Truncate_129",
                      "Close_143"}

\* goroutine t is between fp.lock.Lock() and fp.lock.Unlock()
InCriticalSection(t) ==
    thread[t].pc \in {"NewFile_66", "NewFile_67", "NewFile_68", "NewFile_71",
                      "ReadAt_104", "ReadAt_105", "ReadAt_106",
                      "WriteAt_116", "WriteAt_117", "WriteAt_118", "WriteAt_123",
                      "updateSizeLocked_90", "updateSizeLocked_92",
                      "updateSizeLocked_93", "updateSizeLocked_94",
                      "Truncate_133", "Truncate_134", "Truncate_137",
                      "Close_148", "Close_149", "Close_150"}

\* goroutine t is about to take the lock
AtLock(t) ==
    thread[t].pc \in {"NewFile_65", "ReadAt_103", "WriteAt_115", "Truncate_132",
                      "Close_147"}

\* the goroutines that hold the lock of pool e, and whether Execute does
LockHolders(e) == {t \in Threads : InCriticalSection(t) /\ thread[t].fp = e}
ExecuteHoldsLock(e) == exec[e].pc \in {"Execute_37", "Execute_38"}

\* C12: the lock of a pool is held exactly while one goroutine, or Execute,
\* is in a bookkeeping critical section of that pool, so never by a
\* goroutine that is inside an inner call; a goroutine that is about to take
\* the lock finds it free whenever every other goroutine is inside an inner
\* call or outside any call and Execute is not taking its copy.
C12_NoLockDuringInnerCall ==
    /\ \A e \in Invocations :
        /\ pool[e].lock =>
            Cardinality(LockHolders(e)) + (IF ExecuteHoldsLock(e) THEN 1 ELSE 0) = 1
        /\ ~pool[e].lock => LockHolders(e) = {} /\ ~ExecuteHoldsLock(e)
    /\ \A t \in Threads :
        InInnerCall(t) => \A e \in Invocations : t \notin LockHolders(e)
    /\ \A t \in Threads :
        /\ AtLock(t)
        /\ \A u \in Threads \ {t} : InInnerCall(u) \/ thread[u].pc \in {"idle", "returned"}
        /\ ~ExecuteHoldsLock(thread[t].fp)
        => ~pool[thread[t].fp].lock

\* one goroutine is inside an inner write on one handle while another is
\* in the critical section of a truncate of another handle
C12_Witness ==
    \E t, u \in Threads :
        /\ thread[t].pc = "WriteAt_112"
        /\ thread[u].pc = "updateSizeLocked_93" /\ thread[u].op = "Truncate"
        /\ thread[u].f # thread[t].f
        /\ pool[thread[u].fp].lock

\* the statistics of pool e are those of the inner calls made for e
OwnCounters(e) ==
    /\ pool[e].stats.FilesCreated = hist[e].created
    /\ pool[e].stats.ReadsCount = hist[e].reads
    /\ pool[e].stats.ReadsSizeBytes = hist[e].readBytes
    /\ pool[e].stats.WritesCount = hist[e].writes
    /\ pool[e].stats.WritesSizeBytes = hist[e].writeBytes
    /\ pool[e].stats.TruncatesCount = hist[e].truncates
    /\ pool[e].stats.FilesCountPeak = hist[e].maxTotalFiles
    /\ pool[e].stats.FilesSizeBytesPeak = hist[e].maxTotalSize

\* C13: an invocation starts on a pool whose counters and live aggregates
\* are zero; with two invocations on the one executor and the one underlying
\* pool, a step of a goroutine of one invocation changes neither the pool
\* nor the locals of the other; once no call is in progress the counters of
\* a pool are those of the calls made on it and on its handles, its live
\* aggregates those of its open handles, and the counters an invocation
\* reports are those of its own pool.
C13_ScopedToInvocation ==
    /\ [](\A e \in Invocations :
            /\ AllCompleted =>
                /\ OwnCounters(e)
                /\ pool[e].totalFiles = Cardinality(LiveHandles(e))
                /\ pool[e].totalSize = SumSize(LiveHandles(e))
            /\ exec[e].pc = "returned" =>
                /\ exec[e].ret.AuxiliaryMetadata = <<anypb_New(pool[e].stats)>>
                /\ OwnCounters(e))
    /\ [][\A e \in Invocations :
            exec[e].pc = "idle" /\ exec'[e].pc # "idle" => pool'[e] = NewPool]_vars
    /\ [][\A t \in Threads, e \in Invocations :
            Steps(t) /\ e # WorksFor(t) =>
                pool'[e] = pool[e] /\ exec'[e] = exec[e] /\ hist'[e] = hist[e]]_vars

\* both invocations have returned, the second to start with one file that
\* was written and is still open, the first with one file that was
\* truncated and closed; each reports its own counters
C13_Witness ==
    /\ exec[1].pc = "returned" /\ exec[2].pc = "returned"
    /\ Len(files) = 2
    /\ files[1].owner = 2 /\ files[2].owner = 1
    /\ exec[1].ret.AuxiliaryMetadata[1].value.TruncatesCount = 1
    /\ exec[1].ret.AuxiliaryMetadata[1].value.WritesCount = 0
    /\ exec[2].ret.AuxiliaryMetadata[1].value.WritesCount = 1
    /\ exec[2].ret.AuxiliaryMetadata[1].value.FilesSizeBytesPeak > 0
    /\ exec[2].ret.AuxiliaryMetadata[1].value.TruncatesCount = 0
    /\ pool[1].totalFiles = 0 /\ pool[2].totalFiles = 1

\* goroutine t makes a call on a handle: ReadAt, WriteAt, Truncate or Close
CallsHandle(t) ==
    /\ thread[t].pc = "idle"
    /\ thread'[t].pc # "idle"
    /\ thread'[t].op \in {"ReadAt", "WriteAt", "Truncate", "Close"}

\* C14: a handle on which Close has completed stays closed; a call of
\* ReadAt, WriteAt, Truncate or Close that gets as far as the inner handle
\* is on a handle on which Close has not completed, any other call on a
\* handle stops at the nil inner handle, as a nil dereference, and changes
\* no pool, no handle and nothing of what the inner layer was asked to do;
\* the live aggregates stay those of the handles not closed.
C14_ClosedIsFinal ==
    /\ [][\A f \in DOMAIN files :
            /\ ~files[f].FileReadWriter => ~files'[f].FileReadWriter
            /\ CloseCompleted(f) => files'[f].pool = NilPool]_vars
    /\ [][\A t \in Threads :
            CallsHandle(t) =>
                IF thread'[t].pc = "panic"
                THEN pool' = pool /\ files' = files /\ hist' = hist
                ELSE /\ ~CloseCompleted(thread'[t].f)
                     /\ InInnerCall(t)']_vars
    /\ [](\A e \in Invocations :
            ~pool[e].lock =>
                /\ pool[e].totalFiles = Cardinality(LiveHandles(e))
                /\ pool[e].totalSize = SumSize(LiveHandles(e)))

\* a second Close on a handle that had a size has stopped at the nil inner
\* handle, while another handle is still open
C14_Witness ==
    \E t \in Threads, f, g \in DOMAIN files :
        /\ thread[t].pc = "panic" /\ thread[t].op = "Close"
        /\ CloseCompleted(f) /\ files[f].size > 0
        /\ ~CloseCompleted(g) /\ files[g].FileReadWriter
        /\ pool[files[g].owner].totalFiles = 1
        /\ \A h \in DOMAIN files : CloseCompleted(h) => h = f

\* C15: at the end of the critical section of a WriteAt whose inner write
\* returned n bytes written at offset off, on a handle that had size s when
\* the lock was taken: WritesCount is one more and WritesSizeBytes n more
\* than they were, with or without an inner error; the size of the handle
\* is max(s, off + n) when n > 0 and s when n = 0, never below s; totalSize
\* has changed by what the size of the handle changed by; nothing else of
\* the pool has changed; and the call returns the inner n and error.
C15_WriteAt ==
    \A t \in Threads :
        /\ thread[t].pc = "WriteAt_123" =>
            LET fp == thread[t].fp
                pre == thread[t].pre
                size == files[thread[t].f].size
            IN  /\ pool[fp].stats.WritesCount = pre.stats.WritesCount + 1
                /\ pool[fp].stats.WritesSizeBytes = pre.stats.WritesSizeBytes + thread[t].n
                /\ size = IF thread[t].n > 0
                          THEN Max(pre.size, thread[t].off + thread[t].n)
                          ELSE pre.size
                /\ size >= pre.size
                /\ pool[fp].totalSize = pre.totalSize + (size - pre.size)
                /\ pool[fp].totalFiles = pre.totalFiles
                /\ pool[fp].stats =
                    [pre.stats EXCEPT
                        !.WritesCount = @ + 1,
                        !.WritesSizeBytes = @ + thread[t].n,
                        !.FilesSizeBytesPeak = Max(@, pool[fp].totalSize)]
        /\ thread[t].pc = "returned" /\ thread[t].op = "WriteAt" =>
            thread[t].ret = [f |-> NilFile, n |-> thread[t].n, err |-> thread[t].err]

\* a write that the inner handle failed after it took a byte has made a
\* handle that had a size larger
C15_Witness ==
    \E t \in Threads :
        /\ thread[t].pc = "WriteAt_123"
        /\ thread[t].err # "nil" /\ thread[t].n > 0
        /\ thread[t].pre.size > 0
        /\ files[thread[t].f].size > thread[t].pre.size

\* C16: at the end of the critical section of a Truncate, TruncatesCount is
\* one more than it was when the lock was taken, whether or not the inner
\* truncate failed; when it failed, the size of the handle, totalSize and
\* FilesSizeBytesPeak are what they were; when it succeeded, the size of the
\* handle is the length asked for, totalSize has changed by the difference
\* and FilesSizeBytesPeak is raised to totalSize where that is larger; the
\* call returns the inner error.
C16_Truncate ==
    \A t \in Threads :
        /\ thread[t].pc = "Truncate_137" =>
            LET fp == thread[t].fp
                pre == thread[t].pre
                size == files[thread[t].f].size
            IN  /\ pool[fp].stats.TruncatesCount = pre.stats.TruncatesCount + 1
                /\ pool[fp].totalFiles = pre.totalFiles
                /\ IF thread[t].err # "nil"
                   THEN /\ size = pre.size
                        /\ pool[fp].totalSize = pre.totalSize
                        /\ pool[fp].stats = [pre.stats EXCEPT !.TruncatesCount = @ + 1]
                   ELSE /\ size = thread[t].length
                        /\ pool[fp].totalSize = pre.totalSize - pre.size + thread[t].length
                        /\ pool[fp].stats =
                            [pre.stats EXCEPT
                                !.TruncatesCount = @ + 1,
                                !.FilesSizeBytesPeak = Max(@, pool[fp].totalSize)]
        /\ thread[t].pc = "returned" /\ thread[t].op = "Truncate" =>
            thread[t].ret = [f |-> NilFile, n |-> 0, err |-> thread[t].err]

\* a truncate has made a handle larger and raised the peak, and another
\* truncate has failed in the inner handle
C16_Witness ==
    \E t, u \in Threads :
        /\ thread[t].pc = "Truncate_137" /\ thread[t].err = "nil"
        /\ thread[t].length > thread[t].pre.size
        /\ pool[thread[t].fp].stats.FilesSizeBytesPeak
                > thread[t].pre.stats.FilesSizeBytesPeak
        /\ thread[u].pc = "returned" /\ thread[u].op = "Truncate"
        /\ thread[u].err # "nil"

\* C17: at the end of the critical section of a Close, whether the inner
\* Close succeeded or failed, totalFiles is one less than it was when the
\* lock was taken, totalSize is less by the size of the handle and the
\* statistics are what they were; once the lock is released the live
\* aggregates are those of the other open handles; the call returns the
\* inner error.
C17_Close ==
    \A t \in Threads :
        /\ thread[t].pc = "Close_150" =>
            LET fp == thread[t].fp
                pre == thread[t].pre
            IN  /\ pool[fp].totalFiles = pre.totalFiles - 1
                /\ pool[fp].totalSize = pre.totalSize - pre.size
                /\ files[thread[t].f].size = pre.size
                /\ pool[fp].stats = pre.stats
        /\ thread[t].pc = "Close_151" /\ ~pool[thread[t].fp].lock =>
            LET fp == thread[t].fp
                others == {g \in DOMAIN files :
                            files[g].owner = fp /\ ~Closed(g) /\ g # thread[t].f}
            IN  /\ pool[fp].totalFiles = Cardinality(others)
                /\ pool[fp].totalSize = SumSize(others)
        /\ thread[t].pc = "returned" /\ thread[t].op = "Close" =>
            thread[t].ret = [f |-> NilFile, n |-> 0, err |-> thread[t].err]

\* the inner Close of one of two open handles that have a size has failed
\* and the bookkeeping of its Close is done
C17_Witness ==
    \E t \in Threads :
        /\ thread[t].pc = "Close_150"
        /\ thread[t].err # "nil"
        /\ thread[t].pre.size > 0
        /\ thread[t].pre.totalFiles = 2
        /\ pool[thread[t].fp].totalSize > 0

\* C18: at the end of the critical section of a ReadAt whose inner read
\* returned n bytes, with or without an error, ReadsCount is one more and
\* ReadsSizeBytes n more than they were when the lock was taken, and the
\* size of the handle, totalSize, totalFiles, both peaks and the other
\* counters are what they were; the call returns the inner n and error.
C18_ReadAt ==
    \A t \in Threads :
        /\ thread[t].pc = "ReadAt_106" =>
            LET fp == thread[t].fp
                pre == thread[t].pre
            IN  /\ pool[fp].stats =
                    [pre.stats EXCEPT !.ReadsCount = @ + 1,
                                      !.ReadsSizeBytes = @ + thread[t].n]
                /\ pool[fp].totalSize = pre.totalSize
                /\ pool[fp].totalFiles = pre.totalFiles
                /\ files[thread[t].f].size = pre.size
        /\ thread[t].pc = "returned" /\ thread[t].op = "ReadAt" =>
            thread[t].ret = [f |-> NilFile, n |-> thread[t].n, err |-> thread[t].err]

\* a read of a handle that has a size has returned a byte and an error,
\* on a pool that has counted a write
C18_Witness ==
    \E t \in Threads :
        /\ thread[t].pc = "ReadAt_106"
        /\ thread[t].err # "nil" /\ thread[t].n > 0
        /\ thread[t].pre.size > 0
        /\ thread[t].pre.stats.WritesSizeBytes > 0
        /\ thread[t].pre.stats.FilesSizeBytesPeak > 0

\* C19 as stated: also when a WriteAt or a Truncate on a handle runs at the
\* same time as the Close of that handle, no call stops in a panic, a
\* handle whose Close has done its bookkeeping has no part in totalSize,
\* and once every handle is closed and no call is in progress totalSize is
\* zero.
C19_ClosedNeverContributes ==
    /\ \A t \in Threads : thread[t].pc # "panic"
    /\ \A e \in Invocations :
        /\ ~pool[e].lock /\ AllCompleted => pool[e].totalSize = SumSize(LiveHandles(e))
        /\ AllClosed => pool[e].totalSize = 0

\* a write has completed on a handle after the Close of that handle, which
\* started while the write was in its inner call, had completed
C19_Witness ==
    \E t, u \in Threads :
        /\ thread[t].pc = "returned" /\ thread[t].op = "WriteAt"
        /\ thread[u].pc = "returned" /\ thread[u].op = "Close"
        /\ AllClosed

\* C20 as stated, for calls with offsets and lengths that are not negative:
\* when the bookkeeping of a Close is about to run, totalFiles is at least
\* one and totalSize at least the size of the handle; after the size update
\* of a WriteAt or a Truncate, totalSize is the sum of the sizes of the open
\* handles, as a number, not modulo 2^64; the size a WriteAt or a Truncate
\* gives a handle is off + n or length, as a number.
C20_NeverWraps ==
    \A t \in Threads :
        /\ thread[t].pc = "Close_148" =>
            /\ pool[thread[t].fp].totalFiles >= 1
            /\ pool[thread[t].fp].totalSize >= files[thread[t].f].size
        /\ thread[t].pc \in {"WriteAt_123", "Truncate_137"} =>
            pool[thread[t].fp].totalSize = SumSize(LiveHandles(thread[t].fp))
        /\ thread[t].pc = "updateSizeLocked_90" =>
            thread[t].newSize = IF thread[t].op = "WriteAt"
                                THEN thread[t].off + thread[t].n
                                ELSE thread[t].length

\* the bookkeeping of the Close of a handle as large as a handle gets is
\* about to run, while another handle that large is open
C20_Witness ==
    \E t \in Threads, g \in DOMAIN files :
        /\ thread[t].pc = "Close_148"
        /\ g # thread[t].f
        /\ ~Closed(g)
        /\ files[g].size > MaxInt64
        /\ files[thread[t].f].size > MaxInt64

====
